---- MODULE Spec2Model ----
(***************************************************************************)
(* Reminder delivery pipeline of the SmartQueue reminder service           *)
(* (django_reminder_service/reminders): the Celery beat schedule, the      *)
(* scan task check_and_send_reminders, the per-appointment task            *)
(* send_reminder_email, the manual path send_custom_reminder, the          *)
(* retention task cleanup_old_reminders, and the tables they share         *)
(* (ReminderLog, EmailTemplate) together with the external appointment     *)
(* collection and the email gateway.                                       *)
(*                                                                         *)
(* Time is counted in minutes.  Every access to shared storage (a query,   *)
(* an insert, a save, the gateway call) is one step of a worker, so that   *)
(* tasks running on different workers interleave between any two of them;  *)
(* what a task computes on its own data between two accesses belongs to    *)
(* the step of the access before it.                                       *)
(***************************************************************************)
EXTENDS Integers, Sequences, FiniteSets, TLC

VARIABLES
    now,        \* wall clock, minutes
    appts,      \* the appointment collection of the source (MongoDB)
    ledger,     \* rows of the reminder_logs table (ReminderLog)
    nextPk,     \* next auto-increment primary key of reminder_logs
    templates,  \* rows of the email_templates table (EmailTemplate)
    nextTplId,  \* next auto-increment primary key of email_templates
    queue,      \* tasks waiting in the Celery broker, oldest first
    workers,    \* the frame of the task each worker is executing
    outbox,     \* per appointment, the emails the gateway accepted
    returned,   \* per appointment, how its send_reminder_email tasks ended
    nManual,    \* manual "send now" requests made so far
    deleted_count,  \* what the last cleanup_old_reminders run returned
    fetch_failed,   \* "Error fetching appointments for reminder" was logged
    nAdmin,     \* requests made to the template endpoints so far
    setup,      \* position of a running setup_reminder_service command
    settings    \* the SystemSettings rows: per key its value

\* what the scheduled tasks report
reports == <<deleted_count, fetch_failed>>
\* the administrator's side of the template table
admin == <<nAdmin, setup, settings>>

vars == <<now, appts, ledger, nextPk, templates, nextTplId, queue, workers,
          outbox, returned, nManual, reports, admin>>

-----------------------------------------------------------------------------
(* Bounds of the model *)

\* one-minute beat ticks the clock may make within one retention period
MaxTicks == 1
\* idle periods of one retention window that may elapse
MaxJumps == 1
\* manual "send now" requests
MaxManual == 1
\* requests made in all where send_custom_reminder is also called directly
MaxCalls == 2
\* requests to the template endpoints, the admin site and the setup command
MaxAdmin == 2
\* consecutive beat ticks when nothing but the schedule drives the service
MaxScans == 2
\* clock units per minute where the beat's phase matters
PhasesPerMinute == 4

-----------------------------------------------------------------------------
(* Program constants *)

\* check_and_send_reminders asks for minutes_before=15
MinutesBefore == 15
\* get_appointments_for_reminder: timedelta(minutes=minutes_before -/+ 1)
WindowTolerance == 1
\* cleanup_old_reminders: timedelta(days=30)
RetentionDays == 30
RetentionMinutes == RetentionDays * 24 * 60
\* beat_schedule 'schedule': 60.0 seconds, that is one minute
BeatMinutes == 1

-----------------------------------------------------------------------------
(* Data *)

Workers == {"w1", "w2"}
\* the appointments of the source, in _id order
AppOrder == <<"a1", "a2">>
AppIds == {AppOrder[k] : k \in 1..Len(AppOrder)}
NoId == "-"
\* an id no document of the collection has
UnknownId == "zz"
AllIds == AppIds \cup {UnknownId}
NoEmail == "-"
NullTime == 0 - 1
ReminderType15 == "15min"
\* EmailTemplate.reminder_type choices
ReminderTypes == {"15min", "1hour", "1day"}
OtherReminderTypes == ReminderTypes \ {ReminderType15}
NoType == "-"
PendingStatuses == {"waiting", "confirmed", "scheduled"}
Entities == {"user", "department", "service"}

\* The source's appointments at the start: both pending, not yet notified,
\* a1 due 15 and a2 due 17 minutes after the service starts.
InitialAppointments ==
    [a \in AppIds |->
        [status |-> "waiting",
         reminderSent |-> FALSE,
         appointmentDate |-> IF a = "a1" THEN 15 ELSE 17,
         notificationEmail |-> IF a = "a1" THEN "u@x.com" ELSE "v@x.com"]]

\* Values the fields the query reads may hold in other collections: due
\* times on both sides of the window's ends, statuses in and out of the
\* pending set, the flag set or not.
AppointmentDates == 14..18
OtherStatuses == {"completed", "cancelled"}
AppointmentDocs ==
    [status : PendingStatuses \cup OtherStatuses,
     reminderSent : BOOLEAN,
     appointmentDate : AppointmentDates,
     notificationEmail : {"u@x.com"}]

NoRow ==
    [pk |-> 0, appointment_id |-> NoId, user_email |-> NoEmail,
     reminder_sent |-> FALSE, reminder_sent_at |-> NullTime,
     reminder_type |-> ReminderType15, created_at |-> NullTime]

NoTpl == [id |-> 0, reminder_type |-> "-", is_active |-> FALSE, kind |-> "-"]

\* The messages in the broker: the task's name and its arguments
\* (reminder_type is an argument of send_custom_reminder alone).
ScanTask ==
    [type |-> "scan", aid |-> NoId, email |-> NoEmail, reminder_type |-> NoType]
CustomTaskOfType(a, rtype) ==
    [type |-> "custom", aid |-> a, email |-> NoEmail, reminder_type |-> rtype]
\* send_custom_reminder.delay(appointment_id): reminder_type defaults to 15min
CustomTask(a) == CustomTaskOfType(a, ReminderType15)
SendTask(a, e) ==
    [type |-> "send", aid |-> a, email |-> e, reminder_type |-> NoType]

IdleFrame ==
    [pc |-> "idle", aid |-> NoId, email |-> NoEmail, created |-> FALSE,
     log |-> NoRow, missing |-> {}, tpl |-> NoTpl,
     found |-> <<>>, i |-> 0, attempts |-> <<>>, reminders_sent |-> 0]

-----------------------------------------------------------------------------
(* Templates and rendering (str.format) *)

\* Keys of the context dict that always resolve (tasks.py 95-105).
BaseKeys ==
    {"appointment_date_formatted", "appointment_time", "token_number",
     "queue_position"}

\* Replacement fields str.format finds in the text body of the built-in
\* template; user[firstName], department[name], service[name] are named by
\* the entity they index.
DefaultTextFields == BaseKeys \cup Entities

\* The CSS rules of the built-in HTML body are written with single braces,
\* so str.format reads each of them as a replacement field.
CssFields ==
    {" font-family", " max-width", " background-color", " padding",
     " text-align", " color"}

\* The replacement fields of each part of a template, by the template's kind:
\* "default" is the row create_default_email_template inserts, "custom" a row
\* an administrator wrote with the same fields and no stray braces.
TemplateFields(kind) ==
    IF kind = "default"
    THEN [subject |-> {"token_number"},
          body_text |-> DefaultTextFields,
          body_html |-> DefaultTextFields \cup CssFields]
    ELSE [subject |-> {"token_number"},
          body_text |-> DefaultTextFields,
          body_html |-> DefaultTextFields]

\* The fields that resolve against the context: an entity whose lookup
\* returned None cannot be indexed.
Resolvable(missing) == BaseKeys \cup (Entities \ missing)

\* Formatting that leaves an unresolved field in place instead of raising.
Formats_Lenient(fields, missing) == TRUE

\* str.format(**context) on one part: the text, or an exception.
Formats(fields, missing) == fields \subseteq Resolvable(missing)

\* Lines 118-120: the three parts are formatted one after the other and the
\* first exception leaves the try block.
RendersAll(tpl, missing) ==
    /\ Formats(TemplateFields(tpl.kind).subject, missing)
    /\ Formats(TemplateFields(tpl.kind).body_text, missing)
    /\ Formats(TemplateFields(tpl.kind).body_html, missing)

ActiveTemplates(rtype) ==
    {t \in templates : t.reminder_type = rtype /\ t.is_active}

\* QuerySet.first(): the row with the least primary key.
FirstTemplate(rtype) ==
    IF ActiveTemplates(rtype) = {} THEN NoTpl
    ELSE CHOOSE t \in ActiveTemplates(rtype) :
            \A u \in ActiveTemplates(rtype) : t.id <= u.id

\* email_templates without the unique_together constraint.
TemplateInsertAllowed_NoConstraint(rtype, active) == TRUE

\* unique_together = ['reminder_type', 'is_active']
TemplateInsertAllowed(rtype, active) ==
    ~ \E t \in templates : t.reminder_type = rtype /\ t.is_active = active

-----------------------------------------------------------------------------
(* Ledger *)

RowsFor(a) == {r \in ledger : r.appointment_id = a}

\* appointment_id declared without unique=True: every insert is accepted.
LedgerInsertAllowed_NoConstraint(a) == TRUE

\* appointment_id is unique=True: the insert is refused when a row with the
\* same appointment_id exists.
LedgerInsertAllowed(a) == RowsFor(a) = {}

\* objects.get(appointment_id=a) when a row exists
GetRow(a) == CHOOSE r \in RowsFor(a) : TRUE

NewRow(pk, a, e) ==
    [pk |-> pk, appointment_id |-> a, user_email |-> e,
     reminder_sent |-> FALSE, reminder_sent_at |-> NullTime,
     reminder_type |-> ReminderType15, created_at |-> now]

-----------------------------------------------------------------------------
(* SystemSettings *)

SettingKeys ==
    {"REMINDER_ENABLED", "REMINDER_MINUTES_BEFORE", "EMAIL_FROM_NAME",
     "MAX_RETRY_ATTEMPTS"}
\* no row with the key
NoSetting == "-"
\* setup_reminder_service's default_settings
DefaultSettings ==
    [k \in SettingKeys |->
        CASE k = "REMINDER_ENABLED" -> "true"
          [] k = "REMINDER_MINUTES_BEFORE" -> "15"
          [] k = "EMAIL_FROM_NAME" -> "SmartQueue"
          [] k = "MAX_RETRY_ATTEMPTS" -> "3"]
\* values an administrator may have saved instead
OtherSettings ==
    [k \in SettingKeys |->
        CASE k = "REMINDER_ENABLED" -> "false"
          [] k = "REMINDER_MINUTES_BEFORE" -> "30"
          [] k = "EMAIL_FROM_NAME" -> "Clinic"
          [] k = "MAX_RETRY_ATTEMPTS" -> "0"]
SettingsTables ==
    {s \in [SettingKeys -> {NoSetting, "true", "false", "15", "30",
                            "SmartQueue", "Clinic", "3", "0"}] :
        \A k \in SettingKeys :
            s[k] \in {NoSetting, DefaultSettings[k], OtherSettings[k]}}
\* SystemSettings.objects.get_or_create(key=key, defaults=...) for each key
SettingsWithDefaults(s) ==
    [k \in SettingKeys |-> IF s[k] = NoSetting THEN DefaultSettings[k] ELSE s[k]]

-----------------------------------------------------------------------------
(* Source adapter *)

\* The window's ends compared with $gt and $lt.
InWindow_Exclusive(a, minutes_before) ==
    /\ appts[a].appointmentDate > now + (minutes_before - WindowTolerance)
    /\ appts[a].appointmentDate < now + (minutes_before + WindowTolerance)
    /\ appts[a].status \in PendingStatuses
    /\ appts[a].reminderSent # TRUE

\* get_appointments_for_reminder: the find() query and its window.
InWindow(a, minutes_before) ==
    /\ appts[a].appointmentDate >= now + (minutes_before - WindowTolerance)
    /\ appts[a].appointmentDate <= now + (minutes_before + WindowTolerance)
    /\ appts[a].status \in PendingStatuses
    /\ appts[a].reminderSent # TRUE

\* The documents the query returns, as the scan reads them, in _id order.
get_appointments_for_reminder(minutes_before) ==
    LET ids == SelectSeq(AppOrder, LAMBDA a : InWindow(a, minutes_before))
    IN  [k \in 1..Len(ids) |->
            [aid |-> ids[k], email |-> appts[ids[k]].notificationEmail]]

-----------------------------------------------------------------------------
Init ==
    /\ now = 0
    /\ appts = InitialAppointments
    /\ ledger = {}
    /\ nextPk = 1
    /\ templates \in
         {{}, {[id |-> 1, reminder_type |-> ReminderType15, is_active |-> TRUE,
                kind |-> "custom"]}}
    /\ nextTplId = Cardinality(templates) + 1
    /\ queue = <<>>
    /\ workers = [w \in Workers |-> IdleFrame]
    /\ outbox = [a \in AppIds |-> <<>>]
    /\ returned = [a \in AllIds |-> {}]
    /\ nManual = 0
    /\ deleted_count = 0
    /\ fetch_failed = FALSE
    /\ nAdmin = 0
    /\ setup = "idle"
    /\ settings = [k \in SettingKeys |-> NoSetting]

-----------------------------------------------------------------------------
(* Clock, beat schedule and administrative surface *)

Ticks == now % RetentionMinutes
Jumps == now \div RetentionMinutes

\* 'check-reminders-every-minute': a beat interval elapses and beat queues the
\* scan task.
Beat(limit) ==
    /\ Ticks < limit
    /\ now' = now + BeatMinutes
    /\ queue' = Append(queue, ScanTask)
    /\ UNCHANGED <<appts, ledger, nextPk, templates, nextTplId, workers,
                   outbox, returned, nManual, reports, admin>>

beat_check_reminders == Beat(MaxTicks)

\* Nothing is queued or running.
Quiescent == queue = <<>> /\ \A w \in Workers : workers[w].pc = "idle"

\* A retention period passes in which no appointment falls due and no
\* request is made: tasks take seconds, so none is queued or running
\* throughout it.
Elapse ==
    /\ Jumps < MaxJumps
    /\ Quiescent
    /\ now' = now + RetentionMinutes
    /\ UNCHANGED <<appts, ledger, nextPk, templates, nextTplId, queue,
                   workers, outbox, returned, nManual, reports, admin>>

\* created_at__lte in place of created_at__lt.
Expired_Inclusive(r) == r.created_at <= now - RetentionMinutes

\* The rows cleanup_old_reminders deletes: created_at__lt=cutoff_date.
Expired(r) == r.created_at < now - RetentionMinutes

\* A sweep that also clears the source's flag of the appointments whose
\* records it deletes.
cleanup_old_reminders_ResetsFlags ==
    /\ ledger' = {r \in ledger : ~Expired(r)}
    /\ deleted_count' = Cardinality({r \in ledger : Expired(r)})
    /\ appts' = [a \in AppIds |->
                   IF \E r \in ledger : Expired(r) /\ r.appointment_id = a
                   THEN [appts[a] EXCEPT !.reminderSent = FALSE]
                   ELSE appts[a]]
    /\ UNCHANGED <<now, nextPk, templates, nextTplId, queue, workers,
                   outbox, returned, nManual, fetch_failed, admin>>

\* 'cleanup-old-reminders': one DELETE statement; delete()[0] is the number
\* of rows it removed (ReminderLog has no dependent rows).
cleanup_old_reminders ==
    /\ ledger' = {r \in ledger : ~Expired(r)}
    /\ deleted_count' = Cardinality({r \in ledger : Expired(r)})
    /\ UNCHANGED <<now, appts, nextPk, templates, nextTplId, queue, workers,
                   outbox, returned, nManual, fetch_failed, admin>>

\* SendReminderView.post: for an appointment the source holds it queues
\* send_custom_reminder; otherwise it answers 404.
SendReminderView_post(a) ==
    /\ nManual < MaxManual
    /\ nManual' = nManual + 1
    /\ queue' = IF a \in AppIds THEN Append(queue, CustomTask(a)) ELSE queue
    /\ UNCHANGED <<now, appts, ledger, nextPk, templates, nextTplId, workers,
                   outbox, returned, reports, admin>>

-----------------------------------------------------------------------------
(* Worker steps *)

Idle(w) == workers[w].pc = "idle"

\* The worker takes the oldest waiting task of the given type.
Takes(w, type) ==
    /\ Idle(w)
    /\ queue # <<>>
    /\ Head(queue).type = type

\* The task goes on with frame f.
Goto(w, f) ==
    /\ workers' = [workers EXCEPT ![w] = f]
    /\ returned' = returned

\* send_reminder_email for appointment a returns; outcome names the return
\* statement and, for the except clause, the call that raised.
Return(w, a, outcome) ==
    /\ workers' = [workers EXCEPT ![w] = IdleFrame]
    /\ returned' = [returned EXCEPT ![a] = @ \cup {outcome}]

\* The value send_reminder_email returns: True at lines 87 and 140, False at
\* line 144.
ReturnValue(outcome) == outcome \in {"already_sent", "sent"}

\* The scan going on, after a failed query, with every appointment of the
\* collection instead of none.
check_and_send_reminders_query_Unfiltered(w) ==
    /\ Takes(w, "scan")
    /\ \E up \in BOOLEAN :
         LET appointments ==
                IF up THEN get_appointments_for_reminder(MinutesBefore)
                ELSE [k \in 1..Len(AppOrder) |->
                        [aid |-> AppOrder[k],
                         email |-> appts[AppOrder[k]].notificationEmail]]
         IN  /\ fetch_failed' = (fetch_failed \/ ~up)
             /\ Goto(w, [IdleFrame EXCEPT !.pc = "scan_loop",
                                          !.found = appointments,
                                          !.i = 1])
    /\ queue' = Tail(queue)
    /\ UNCHANGED <<now, appts, ledger, nextPk, templates, nextTplId, outbox,
                   nManual, deleted_count, admin>>

\* check_and_send_reminders up to the loop: the query (an exception inside
\* get_appointments_for_reminder yields the empty list) and the early return.
check_and_send_reminders_query(w) ==
    /\ Takes(w, "scan")
    /\ \E up \in BOOLEAN :
         LET appointments ==
                IF up THEN get_appointments_for_reminder(MinutesBefore)
                ELSE <<>>
         IN  /\ fetch_failed' = (fetch_failed \/ ~up)
             /\ IF appointments = <<>>
                THEN Goto(w, IdleFrame)
                ELSE Goto(w, [IdleFrame EXCEPT !.pc = "scan_loop",
                                              !.found = appointments,
                                              !.i = 1])
    /\ queue' = Tail(queue)
    /\ UNCHANGED <<now, appts, ledger, nextPk, templates, nextTplId, outbox,
                   nManual, deleted_count, admin>>

\* The loop with the try around the whole loop instead of inside it: a
\* raising delay(...) leaves the loop.
check_and_send_reminders_iter_Abort(w, delay_ok) ==
    LET f == workers[w]
        appointment == f.found[f.i]
    IN  /\ f.pc = "scan_loop"
        /\ f.i <= Len(f.found)
        /\ IF delay_ok
           THEN /\ queue' = Append(queue,
                              SendTask(appointment.aid, appointment.email))
                /\ Goto(w, [f EXCEPT
                       !.i = f.i + 1,
                       !.attempts = Append(f.attempts, appointment.aid),
                       !.reminders_sent = f.reminders_sent + 1])
           ELSE /\ queue' = queue
                /\ Goto(w, [f EXCEPT
                       !.i = Len(f.found) + 1,
                       !.attempts = Append(f.attempts, appointment.aid)])
        /\ UNCHANGED <<now, appts, ledger, nextPk, templates, nextTplId,
                       outbox, nManual, reports, admin>>

\* One iteration of the loop: send_reminder_email.delay(...) either queues
\* the task or raises, and the handler continues with the next appointment.
check_and_send_reminders_iter(w, delay_ok) ==
    LET f == workers[w]
        appointment == f.found[f.i]
    IN  /\ f.pc = "scan_loop"
        /\ f.i <= Len(f.found)
        /\ IF delay_ok
           THEN /\ queue' = Append(queue,
                              SendTask(appointment.aid, appointment.email))
                /\ Goto(w, [f EXCEPT
                       !.i = f.i + 1,
                       !.attempts = Append(f.attempts, appointment.aid),
                       !.reminders_sent = f.reminders_sent + 1])
           ELSE /\ queue' = queue
                /\ Goto(w, [f EXCEPT
                       !.i = f.i + 1,
                       !.attempts = Append(f.attempts, appointment.aid)])
        /\ UNCHANGED <<now, appts, ledger, nextPk, templates, nextTplId,
                       outbox, nManual, reports, admin>>

\* Line 53: the dict the scan returns after the loop.
ScanSummary(f) == [status |-> "success", reminders_sent |-> f.reminders_sent]

\* The loop is exhausted: the task returns its summary.
check_and_send_reminders_return(w) ==
    /\ workers[w].pc = "scan_loop"
    /\ workers[w].i > Len(workers[w].found)
    /\ Goto(w, IdleFrame)
    /\ UNCHANGED <<now, appts, ledger, nextPk, templates, nextTplId, queue,
                   outbox, nManual, reports, admin>>

\* The manual path passing another address field than the scan does.
send_custom_reminder_OtherEmail(w) ==
    /\ Takes(w, "custom")
    /\ queue' = Append(Tail(queue), SendTask(Head(queue).aid, NoEmail))
    /\ UNCHANGED <<now, appts, ledger, nextPk, templates, nextTplId, workers,
                   outbox, returned, nManual, reports, admin>>

\* send_custom_reminder inserting the ledger row before it looks the
\* appointment up.
send_custom_reminder_ClaimsFirst(w) ==
    /\ Takes(w, "custom")
    /\ LET a == Head(queue).aid
       IN  IF a \in AppIds
           THEN /\ queue' = Append(Tail(queue),
                                   SendTask(a, appts[a].notificationEmail))
                /\ UNCHANGED <<returned, ledger, nextPk>>
           ELSE /\ queue' = Tail(queue)
                /\ returned' = [returned EXCEPT ![a] = @ \cup {"not_found"}]
                /\ ledger' = ledger \cup {NewRow(nextPk, a, NoEmail)}
                /\ nextPk' = nextPk + 1
    /\ UNCHANGED <<now, appts, templates, nextTplId, workers,
                   outbox, nManual, reports, admin>>

\* send_custom_reminder: reads the appointment and queues send_reminder_email
\* for it (reminder_type is not passed on); returns False when the source has
\* no such appointment.
send_custom_reminder(w) ==
    /\ Takes(w, "custom")
    /\ LET a == Head(queue).aid
       IN  IF a \in AppIds
           THEN /\ queue' = Append(Tail(queue),
                                   SendTask(a, appts[a].notificationEmail))
                /\ returned' = returned
           ELSE /\ queue' = Tail(queue)
                /\ returned' = [returned EXCEPT ![a] = @ \cup {"not_found"}]
    /\ UNCHANGED <<now, appts, ledger, nextPk, templates, nextTplId, workers,
                   outbox, nManual, reports, admin>>

-----------------------------------------------------------------------------
(* send_reminder_email *)

\* Line 85 without the reminder_sent test on an existing row.
AlreadySent_Never(created, reminder_log) == FALSE

\* Line 85: the only case in which the task stops after the claim.
AlreadySent(created, reminder_log) == ~created /\ reminder_log.reminder_sent

\* Lines 85-87 going on to mark_reminder_sent when already sent.
AfterClaim_MarksAgain(w, f, reminder_log, created) ==
    IF AlreadySent(created, reminder_log)
    THEN Goto(w, [f EXCEPT !.pc = "mark", !.log = reminder_log,
                           !.created = created])
    ELSE Goto(w, [f EXCEPT !.pc = "context", !.log = reminder_log,
                           !.created = created])

\* Lines 85-87: return True when already sent, otherwise go on to the lookups.
AfterClaim(w, f, reminder_log, created) ==
    IF AlreadySent(created, reminder_log)
    THEN Return(w, f.aid, "already_sent")
    ELSE Goto(w, [f EXCEPT !.pc = "context", !.log = reminder_log,
                           !.created = created])

\* get_or_create, first half: the SELECT by appointment_id.
get_or_create_get(w) ==
    /\ Takes(w, "send")
    /\ LET t == Head(queue)
           f == [IdleFrame EXCEPT !.aid = t.aid, !.email = t.email]
       IN  IF RowsFor(t.aid) = {}
           THEN Goto(w, [f EXCEPT !.pc = "claim_insert"])
           ELSE AfterClaim(w, f, GetRow(t.aid), FALSE)
    /\ queue' = Tail(queue)
    /\ UNCHANGED <<now, appts, ledger, nextPk, templates, nextTplId, outbox,
                   nManual, reports, admin>>

\* A create() in place of get_or_create(): the IntegrityError reaches the
\* task's except clause.
get_or_create_create_Raises(w) ==
    LET f == workers[w]
        row == NewRow(nextPk, f.aid, f.email)
    IN  /\ f.pc = "claim_insert"
        /\ IF LedgerInsertAllowed(f.aid)
           THEN /\ ledger' = ledger \cup {row}
                /\ nextPk' = nextPk + 1
                /\ AfterClaim(w, f, row, TRUE)
           ELSE /\ UNCHANGED <<ledger, nextPk>>
                /\ Return(w, f.aid, "error_claim")
        /\ UNCHANGED <<now, appts, templates, nextTplId, queue, outbox,
                       nManual, reports, admin>>

\* get_or_create, second half: the INSERT; on the IntegrityError of the unique
\* appointment_id the row that won is read back with created = False.
get_or_create_create(w) ==
    LET f == workers[w]
        row == NewRow(nextPk, f.aid, f.email)
    IN  /\ f.pc = "claim_insert"
        /\ IF LedgerInsertAllowed(f.aid)
           THEN /\ ledger' = ledger \cup {row}
                /\ nextPk' = nextPk + 1
                /\ AfterClaim(w, f, row, TRUE)
           ELSE /\ UNCHANGED <<ledger, nextPk>>
                /\ AfterClaim(w, f, GetRow(f.aid), FALSE)
        /\ UNCHANGED <<now, appts, templates, nextTplId, queue, outbox,
                       nManual, reports, admin>>

\* What the three lookups of lines 90-92 may return: all documents, or None
\* for one of them.
LookupOutcomes == {{}} \cup {{e} : e \in Entities}

\* Lines 117-120 for a template in hand: the task goes on to the gateway
\* call, or ends in its except clause.
AfterRender(w, f, template, missing) ==
    IF RendersAll(template, missing)
    THEN Goto(w, [f EXCEPT !.pc = "send", !.tpl = template,
                           !.missing = missing])
    ELSE Return(w, f.aid, "error_render")

\* Lines 89-120 when an active template exists, lines 89-113 when none does:
\* the lookups, the context dict and the query for the active 15min template
\* (formatting works on the task's own data and is part of this step).
send_reminder_email_template(w) ==
    /\ workers[w].pc = "context"
    /\ \E missing \in LookupOutcomes :
         LET template == FirstTemplate(ReminderType15)
         IN  IF template = NoTpl
             THEN Goto(w, [workers[w] EXCEPT !.pc = "create_template",
                                             !.missing = missing])
             ELSE AfterRender(w, workers[w], template, missing)
    /\ UNCHANGED <<now, appts, ledger, nextPk, templates, nextTplId, queue,
                   outbox, nManual, reports, admin>>

\* create_default_email_template: EmailTemplate.objects.create(...), then
\* lines 117-120 on the new row; the IntegrityError of unique_together ends
\* the task in its except clause.
create_default_email_template(w) ==
    LET f == workers[w]
        template == [id |-> nextTplId, reminder_type |-> ReminderType15,
                     is_active |-> TRUE, kind |-> "default"]
    IN  /\ f.pc = "create_template"
        /\ IF TemplateInsertAllowed(ReminderType15, TRUE)
           THEN /\ templates' = templates \cup {template}
                /\ nextTplId' = nextTplId + 1
                /\ AfterRender(w, f, template, f.missing)
           ELSE /\ UNCHANGED <<templates, nextTplId>>
                /\ Return(w, f.aid, "error_template")
        /\ UNCHANGED <<now, appts, ledger, nextPk, queue, outbox, nManual,
                       reports, admin>>

\* send_mail(..., fail_silently=True): a gateway failure goes unnoticed and
\* the task finalizes.
send_mail_FailSilently(w, accepted) ==
    LET f == workers[w]
    IN  /\ f.pc = "send"
        /\ outbox' = IF accepted
                     THEN [outbox EXCEPT ![f.aid] =
                             Append(@, [to |-> f.email, pk |-> f.log.pk])]
                     ELSE outbox
        /\ Goto(w, [f EXCEPT !.pc = "finalize"])
        /\ UNCHANGED <<now, appts, ledger, nextPk, templates, nextTplId,
                       queue, nManual, reports, admin>>

\* A gateway failure handled by writing the instance back as unsent.
send_mail_Rollback(w, accepted) ==
    LET f == workers[w]
    IN  /\ f.pc = "send"
        /\ IF accepted
           THEN /\ outbox' = [outbox EXCEPT ![f.aid] =
                                 Append(@, [to |-> f.email, pk |-> f.log.pk])]
                /\ ledger' = ledger
                /\ Goto(w, [f EXCEPT !.pc = "finalize"])
           ELSE /\ outbox' = outbox
                /\ ledger' = {r \in ledger : r.pk # f.log.pk} \cup
                             {r \in {f.log} : \E q \in ledger : q.pk = r.pk}
                /\ Return(w, f.aid, "error_gateway")
        /\ UNCHANGED <<now, appts, nextPk, templates, nextTplId, queue,
                       nManual, reports, admin>>

\* A refused message queued again while MAX_RETRY_ATTEMPTS allows retries.
send_mail_Retries(w, accepted) ==
    LET f == workers[w]
    IN  /\ f.pc = "send"
        /\ IF accepted
           THEN /\ outbox' = [outbox EXCEPT ![f.aid] =
                                 Append(@, [to |-> f.email, pk |-> f.log.pk])]
                /\ Goto(w, [f EXCEPT !.pc = "finalize"])
                /\ queue' = queue
           ELSE /\ outbox' = outbox
                /\ Return(w, f.aid, "error_gateway")
                /\ queue' = IF settings["MAX_RETRY_ATTEMPTS"] \in {NoSetting, "0"}
                            THEN queue
                            ELSE Append(queue, SendTask(f.aid, f.email))
        /\ UNCHANGED <<now, appts, ledger, nextPk, templates, nextTplId,
                       nManual, reports, admin>>

\* Lines 122-129: send_mail(..., fail_silently=False) hands the message to the
\* gateway, or raises.
send_mail(w, accepted) ==
    LET f == workers[w]
    IN  /\ f.pc = "send"
        /\ IF accepted
           THEN /\ outbox' = [outbox EXCEPT ![f.aid] =
                                 Append(@, [to |-> f.email, pk |-> f.log.pk])]
                /\ Goto(w, [f EXCEPT !.pc = "finalize"])
           ELSE /\ outbox' = outbox
                /\ Return(w, f.aid, "error_gateway")
        /\ UNCHANGED <<now, appts, ledger, nextPk, templates, nextTplId,
                       queue, nManual, reports, admin>>

\* Line 133 left out: the row is saved with reminder_sent and without
\* reminder_sent_at.
send_reminder_email_finalize_NoTimestamp(w) ==
    LET f == workers[w]
        saved == [f.log EXCEPT !.reminder_sent = TRUE]
        inserted == [saved EXCEPT !.created_at = now]
    IN  /\ f.pc = "finalize"
        /\ IF \E r \in ledger : r.pk = saved.pk
           THEN /\ ledger' = {r \in ledger : r.pk # saved.pk} \cup {saved}
                /\ Goto(w, [f EXCEPT !.pc = "mark", !.log = saved])
           ELSE IF LedgerInsertAllowed(f.aid)
           THEN /\ ledger' = ledger \cup {inserted}
                /\ Goto(w, [f EXCEPT !.pc = "mark", !.log = inserted])
           ELSE /\ ledger' = ledger
                /\ Return(w, f.aid, "error_save")
        /\ UNCHANGED <<now, appts, nextPk, templates, nextTplId, queue,
                       outbox, nManual, reports, admin>>

\* Lines 132-134: Model.save() writes every field of the instance: an UPDATE
\* of the row with its primary key or, when that row is gone, an INSERT of it
\* (auto_now_add sets created_at), which the unique appointment_id may refuse.
send_reminder_email_finalize(w) ==
    LET f == workers[w]
        saved == [f.log EXCEPT !.reminder_sent = TRUE,
                               !.reminder_sent_at = now]
        inserted == [saved EXCEPT !.created_at = now]
    IN  /\ f.pc = "finalize"
        /\ IF \E r \in ledger : r.pk = saved.pk
           THEN /\ ledger' = {r \in ledger : r.pk # saved.pk} \cup {saved}
                /\ Goto(w, [f EXCEPT !.pc = "mark", !.log = saved])
           ELSE IF LedgerInsertAllowed(f.aid)
           THEN /\ ledger' = ledger \cup {inserted}
                /\ Goto(w, [f EXCEPT !.pc = "mark", !.log = inserted])
           ELSE /\ ledger' = ledger
                /\ Return(w, f.aid, "error_save")
        /\ UNCHANGED <<now, appts, nextPk, templates, nextTplId, queue,
                       outbox, nManual, reports, admin>>

\* A failed update of the source's flag treated as a failure of the task.
mark_reminder_sent_Fatal(w, updated) ==
    LET f == workers[w]
    IN  /\ f.pc = "mark"
        /\ appts' = IF updated
                    THEN [appts EXCEPT ![f.aid].reminderSent = TRUE]
                    ELSE appts
        /\ IF updated THEN Return(w, f.aid, "sent")
           ELSE Return(w, f.aid, "error_mark")
        /\ UNCHANGED <<now, ledger, nextPk, templates, nextTplId, queue,
                       outbox, nManual, reports, admin>>

\* Lines 137-140: mongodb_client.mark_reminder_sent, whose own except clause
\* swallows a failed update; the task returns True.
mark_reminder_sent(w, updated) ==
    LET f == workers[w]
    IN  /\ f.pc = "mark"
        /\ appts' = IF updated
                    THEN [appts EXCEPT ![f.aid].reminderSent = TRUE]
                    ELSE appts
        /\ Return(w, f.aid, "sent")
        /\ UNCHANGED <<now, ledger, nextPk, templates, nextTplId, queue,
                       outbox, nManual, reports, admin>>

-----------------------------------------------------------------------------
Next ==
    \/ beat_check_reminders
    \/ Elapse
    \/ cleanup_old_reminders
    \/ \E a \in AppIds : SendReminderView_post(a)
    \/ \E w \in Workers :
        \/ check_and_send_reminders_query(w)
        \/ \E delay_ok \in BOOLEAN : check_and_send_reminders_iter(w, delay_ok)
        \/ check_and_send_reminders_return(w)
        \/ send_custom_reminder(w)
        \/ get_or_create_get(w)
        \/ get_or_create_create(w)
        \/ send_reminder_email_template(w)
        \/ create_default_email_template(w)
        \/ \E accepted \in BOOLEAN : send_mail(w, accepted)
        \/ send_reminder_email_finalize(w)
        \/ \E updated \in BOOLEAN : mark_reminder_sent(w, updated)

Spec == Init /\ [][Next]_vars

-----------------------------------------------------------------------------
(* The template table's other writers: the REST endpoints, the admin site
   and the setup_reminder_service command *)

\* EmailTemplateListView (ListCreateAPIView) POST: the serializer's
\* unique-together validator or the table's constraint refuse a second row
\* with the same reminder_type and is_active.
EmailTemplateListView_post(rtype, active) ==
    /\ nAdmin < MaxAdmin
    /\ nAdmin' = nAdmin + 1
    /\ IF TemplateInsertAllowed(rtype, active)
       THEN /\ templates' = templates \cup
                   {[id |-> nextTplId, reminder_type |-> rtype,
                     is_active |-> active, kind |-> "custom"]}
            /\ nextTplId' = nextTplId + 1
       ELSE UNCHANGED <<templates, nextTplId>>
    /\ UNCHANGED <<now, appts, ledger, nextPk, queue, workers, outbox,
                   returned, nManual, reports, setup, settings>>

\* EmailTemplateDetailView is routed with the URL keyword template_id while
\* the view looks its object up by pk: get_object() fails its assertion and
\* every GET, PUT, PATCH and DELETE ends in a server error.
EmailTemplateDetailView_request ==
    /\ nAdmin < MaxAdmin
    /\ nAdmin' = nAdmin + 1
    /\ UNCHANGED <<now, appts, ledger, nextPk, templates, nextTplId, queue,
                   workers, outbox, returned, nManual, reports, setup, settings>>

\* A change form saved without the uniqueness check.
TemplateUpdateAllowed_Unchecked(t, rtype, active) == TRUE

\* Uniqueness enforced among the active rows only.
TemplateUpdateAllowed_ActiveOnly(t, rtype, active) ==
    ~active \/ ~ \E u \in templates \ {t} :
                    u.reminder_type = rtype /\ u.is_active

\* An UPDATE of row t is refused when another row has the pair.
TemplateUpdateAllowed(t, rtype, active) ==
    ~ \E u \in templates \ {t} :
          u.reminder_type = rtype /\ u.is_active = active

\* EmailTemplateAdmin change form: sets reminder_type and is_active of a row.
EmailTemplateAdmin_change(t, rtype, active) ==
    /\ nAdmin < MaxAdmin
    /\ t \in templates
    /\ nAdmin' = nAdmin + 1
    /\ templates' =
         IF TemplateUpdateAllowed(t, rtype, active)
         THEN (templates \ {t}) \cup
                 {[t EXCEPT !.reminder_type = rtype, !.is_active = active]}
         ELSE templates
    /\ UNCHANGED <<now, appts, ledger, nextPk, nextTplId, queue, workers,
                   outbox, returned, nManual, reports, setup, settings>>

\* EmailTemplateAdmin delete.
EmailTemplateAdmin_delete(t) ==
    /\ nAdmin < MaxAdmin
    /\ t \in templates
    /\ nAdmin' = nAdmin + 1
    /\ templates' = templates \ {t}
    /\ UNCHANGED <<now, appts, ledger, nextPk, nextTplId, queue, workers,
                   outbox, returned, nManual, reports, setup, settings>>

\* setup_reminder_service, lines 19-25: the exists() query; with an active
\* 15min template the command goes on to the settings (lines 27-43).
Command_handle_exists ==
    /\ nAdmin < MaxAdmin
    /\ setup = "idle"
    /\ nAdmin' = nAdmin + 1
    /\ IF ActiveTemplates(ReminderType15) = {}
       THEN /\ setup' = "create"
            /\ settings' = settings
       ELSE /\ setup' = "idle"
            /\ settings' = SettingsWithDefaults(settings)
    /\ UNCHANGED <<now, appts, ledger, nextPk, templates, nextTplId, queue,
                   workers, outbox, returned, nManual, reports>>

\* setup_reminder_service, line 22: create_default_email_template(), then
\* the settings (lines 27-43); the IntegrityError of unique_together ends
\* the command.
Command_handle_create ==
    /\ setup = "create"
    /\ setup' = "idle"
    /\ IF TemplateInsertAllowed(ReminderType15, TRUE)
       THEN /\ templates' = templates \cup
                   {[id |-> nextTplId, reminder_type |-> ReminderType15,
                     is_active |-> TRUE, kind |-> "default"]}
            /\ nextTplId' = nextTplId + 1
            /\ settings' = SettingsWithDefaults(settings)
       ELSE UNCHANGED <<templates, nextTplId, settings>>
    /\ UNCHANGED <<now, appts, ledger, nextPk, queue, workers, outbox,
                   returned, nManual, reports, nAdmin>>

\* Template administration next to manual sends, whose tasks create the
\* default template on demand.
NextAdmin ==
    \/ \E rtype \in ReminderTypes : \E active \in BOOLEAN :
          EmailTemplateListView_post(rtype, active)
    \/ EmailTemplateDetailView_request
    \/ \E t \in templates : \E rtype \in ReminderTypes : \E active \in BOOLEAN :
          EmailTemplateAdmin_change(t, rtype, active)
    \/ \E t \in templates : EmailTemplateAdmin_delete(t)
    \/ Command_handle_exists
    \/ Command_handle_create
    \/ \E a \in AppIds : SendReminderView_post(a)
    \/ \E w \in Workers :
        \/ send_custom_reminder(w)
        \/ get_or_create_get(w)
        \/ get_or_create_create(w)
        \/ send_reminder_email_template(w)
        \/ create_default_email_template(w)
        \/ \E accepted \in BOOLEAN : send_mail(w, accepted)
        \/ send_reminder_email_finalize(w)
        \/ \E updated \in BOOLEAN : mark_reminder_sent(w, updated)

SpecAdmin == Init /\ [][NextAdmin]_vars

-----------------------------------------------------------------------------
(* The schedule alone: consecutive ticks of the scan *)

beat_consecutive == Beat(MaxScans)

NextScans ==
    \/ beat_consecutive
    \/ \E w \in Workers :
        \/ check_and_send_reminders_query(w)
        \/ \E delay_ok \in BOOLEAN : check_and_send_reminders_iter(w, delay_ok)
        \/ check_and_send_reminders_return(w)
        \/ get_or_create_get(w)
        \/ get_or_create_create(w)
        \/ send_reminder_email_template(w)
        \/ create_default_email_template(w)
        \/ \E accepted \in BOOLEAN : send_mail(w, accepted)
        \/ send_reminder_email_finalize(w)
        \/ \E updated \in BOOLEAN : mark_reminder_sent(w, updated)

SpecScans == Init /\ [][NextScans]_vars

-----------------------------------------------------------------------------
(* Manual sends and the sweep once a record has outlived the retention
   period *)

\* The record of a1 as the service's first minute left it: Claimed after a
\* refused email, or Sent.
OldRow(sent) ==
    [NewRow(1, "a1", InitialAppointments["a1"].notificationEmail)
        EXCEPT !.created_at = 0,
               !.reminder_sent = sent,
               !.reminder_sent_at = IF sent THEN 0 ELSE NullTime]

\* A retention period and a minute later, nothing queued or running: a1's
\* record is older than the cutoff and was either abandoned as Claimed (its
\* email refused) or finalized as Sent (its email accepted, the source
\* flagged).
InitRetry ==
    /\ now = RetentionMinutes + 1
    /\ \E sent \in BOOLEAN :
          /\ appts = [InitialAppointments EXCEPT !["a1"].reminderSent = sent]
          /\ ledger = {OldRow(sent)}
          /\ outbox = [a \in AppIds |->
                         IF a = "a1" /\ sent
                         THEN <<[to |-> OldRow(sent).user_email, pk |-> 1]>>
                         ELSE <<>>]
          /\ returned = [a \in AllIds |->
                           IF a # "a1" THEN {}
                           ELSE IF sent THEN {"sent"} ELSE {"error_gateway"}]
    /\ nextPk = 2
    /\ templates \in
         {{}, {[id |-> 1, reminder_type |-> ReminderType15, is_active |-> TRUE,
                kind |-> "custom"]}}
    /\ nextTplId = Cardinality(templates) + 1
    /\ queue = <<>>
    /\ workers = [w \in Workers |-> IdleFrame]
    /\ nManual = 0
    /\ deleted_count = 0
    /\ fetch_failed = FALSE
    /\ nAdmin = 0
    /\ setup = "idle"
    /\ settings = [k \in SettingKeys |-> NoSetting]

NextRetry ==
    \/ cleanup_old_reminders
    \/ \E a \in AppIds : SendReminderView_post(a)
    \/ \E w \in Workers :
        \/ send_custom_reminder(w)
        \/ get_or_create_get(w)
        \/ get_or_create_create(w)
        \/ send_reminder_email_template(w)
        \/ create_default_email_template(w)
        \/ \E accepted \in BOOLEAN : send_mail(w, accepted)
        \/ send_reminder_email_finalize(w)
        \/ \E updated \in BOOLEAN : mark_reminder_sent(w, updated)

SpecRetry == InitRetry /\ [][NextRetry]_vars

-----------------------------------------------------------------------------
(* send_custom_reminder called with a reminder type, and for ids the source
   does not have *)

\* send_custom_reminder.delay(appointment_id, reminder_type) by a caller
\* other than the view.
send_custom_reminder_delay(a, rtype) ==
    /\ nManual < MaxCalls
    /\ nManual' = nManual + 1
    /\ queue' = Append(queue, CustomTaskOfType(a, rtype))
    /\ UNCHANGED <<now, appts, ledger, nextPk, templates, nextTplId, workers,
                   outbox, returned, reports, admin>>

\* Every request is for a reminder type other than 15min, or for an id the
\* source does not have.
NextCustom ==
    \/ \E a \in AllIds : \E rtype \in OtherReminderTypes :
          send_custom_reminder_delay(a, rtype)
    \/ SendReminderView_post(UnknownId)
    \/ \E w \in Workers :
        \/ send_custom_reminder(w)
        \/ get_or_create_get(w)
        \/ get_or_create_create(w)
        \/ send_reminder_email_template(w)
        \/ create_default_email_template(w)
        \/ \E accepted \in BOOLEAN : send_mail(w, accepted)
        \/ send_reminder_email_finalize(w)
        \/ \E updated \in BOOLEAN : mark_reminder_sent(w, updated)

SpecCustom == Init /\ [][NextCustom]_vars

-----------------------------------------------------------------------------
(* The scan while the application owning the appointments collection
   updates it *)

\* The owner of the appointments collection sets a pending appointment's
\* status to one outside the pending set.
appointments_update_status(a, st) ==
    /\ appts[a].status \in PendingStatuses
    /\ appts' = [appts EXCEPT ![a].status = st]
    /\ UNCHANGED <<now, ledger, nextPk, templates, nextTplId, queue, workers,
                   outbox, returned, nManual, reports, admin>>

NextSource ==
    \/ beat_check_reminders
    \/ \E a \in AppIds : \E st \in OtherStatuses :
          appointments_update_status(a, st)
    \/ \E w \in Workers :
        \/ check_and_send_reminders_query(w)
        \/ \E delay_ok \in BOOLEAN : check_and_send_reminders_iter(w, delay_ok)
        \/ check_and_send_reminders_return(w)
        \/ get_or_create_get(w)
        \/ get_or_create_create(w)
        \/ send_reminder_email_template(w)
        \/ create_default_email_template(w)
        \/ \E accepted \in BOOLEAN : send_mail(w, accepted)
        \/ send_reminder_email_finalize(w)
        \/ \E updated \in BOOLEAN : mark_reminder_sent(w, updated)

SpecSource == Init /\ [][NextSource]_vars

-----------------------------------------------------------------------------
(* The beat's ticks against the query's window, on a clock of
   PhasesPerMinute units per minute *)

\* The query matching the scheduled time exactly.
InWindowFine_Exact(a, minutes_before) ==
    /\ appts[a].appointmentDate = now + minutes_before * PhasesPerMinute
    /\ appts[a].status \in PendingStatuses
    /\ appts[a].reminderSent # TRUE

\* get_appointments_for_reminder's query, now and appointmentDate counted in
\* clock units.
InWindowFine(a, minutes_before) ==
    /\ appts[a].appointmentDate >=
          now + (minutes_before - WindowTolerance) * PhasesPerMinute
    /\ appts[a].appointmentDate <=
          now + (minutes_before + WindowTolerance) * PhasesPerMinute
    /\ appts[a].status \in PendingStatuses
    /\ appts[a].reminderSent # TRUE

\* Scheduled times: the first tick is at or before the window's start
\* whatever the phase.
FineDates ==
    ((MinutesBefore + WindowTolerance + 1) * PhasesPerMinute - 1) ..
    ((MinutesBefore + WindowTolerance + 2) * PhasesPerMinute - 1)
LastFineTick ==
    (WindowTolerance + 2) * PhasesPerMinute - 1 + WindowTolerance * PhasesPerMinute

\* Any phase of the beat, any scheduled times; appointments pending and
\* not notified.
InitPhase ==
    /\ now \in 0..(PhasesPerMinute - 1)
    /\ \E d1 \in FineDates : \E d2 \in FineDates :
          appts = [a \in AppIds |->
                     [status |-> "waiting", reminderSent |-> FALSE,
                      appointmentDate |-> IF a = "a1" THEN d1 ELSE d2,
                      notificationEmail |-> "u@x.com"]]
    /\ ledger = {}
    /\ nextPk = 1
    /\ templates = {}
    /\ nextTplId = 1
    /\ queue = <<>>
    /\ workers = [w \in Workers |-> IdleFrame]
    /\ outbox = [a \in AppIds |-> <<>>]
    /\ returned = [a \in AllIds |-> {}]
    /\ nManual = 0
    /\ deleted_count = 0
    /\ fetch_failed = FALSE
    /\ nAdmin = 0
    /\ setup = "idle"
    /\ settings = [k \in SettingKeys |-> NoSetting]

\* One tick of the beat and the scan it starts: the query at the tick's
\* time, one send_reminder_email queued per document returned; the next
\* tick is one beat period later.
beat_scan(minutes_before) ==
    /\ now <= LastFineTick
    /\ LET ids == SelectSeq(AppOrder,
                            LAMBDA a : InWindowFine(a, minutes_before))
       IN  queue' = queue \o
             [k \in 1..Len(ids) |->
                SendTask(ids[k], appts[ids[k]].notificationEmail)]
    /\ now' = now + BeatMinutes * PhasesPerMinute
    /\ UNCHANGED <<appts, ledger, nextPk, templates, nextTplId, workers,
                   outbox, returned, nManual, reports, admin>>

NextPhase == beat_scan(MinutesBefore)

SpecPhase == InitPhase /\ [][NextPhase]_vars

-----------------------------------------------------------------------------
(* The pipeline over any SystemSettings table *)

InitSettings ==
    /\ now = 0
    /\ appts = InitialAppointments
    /\ ledger = {}
    /\ nextPk = 1
    /\ templates =
         {[id |-> 1, reminder_type |-> ReminderType15, is_active |-> TRUE,
           kind |-> "custom"]}
    /\ nextTplId = 2
    /\ queue = <<>>
    /\ workers = [w \in Workers |-> IdleFrame]
    /\ outbox = [a \in AppIds |-> <<>>]
    /\ returned = [a \in AllIds |-> {}]
    /\ nManual = 0
    /\ deleted_count = 0
    /\ fetch_failed = FALSE
    /\ nAdmin = 0
    /\ setup = "idle"
    /\ settings \in SettingsTables

NextSettings ==
    \/ beat_check_reminders
    \/ \E w \in Workers :
        \/ check_and_send_reminders_query(w)
        \/ \E delay_ok \in BOOLEAN : check_and_send_reminders_iter(w, delay_ok)
        \/ check_and_send_reminders_return(w)
        \/ get_or_create_get(w)
        \/ get_or_create_create(w)
        \/ send_reminder_email_template(w)
        \/ \E accepted \in BOOLEAN : send_mail(w, accepted)
        \/ send_reminder_email_finalize(w)
        \/ \E updated \in BOOLEAN : mark_reminder_sent(w, updated)

SpecSettings == InitSettings /\ [][NextSettings]_vars

-----------------------------------------------------------------------------
(* Scans and manual sends while the application owning the appointments
   collection changes a notification address *)

NewEmail == "w@x.com"

\* The owner of the appointments collection replaces an appointment's
\* notificationEmail.
appointments_update_email(a) ==
    /\ appts[a].notificationEmail # NewEmail
    /\ appts' = [appts EXCEPT ![a].notificationEmail = NewEmail]
    /\ UNCHANGED <<now, ledger, nextPk, templates, nextTplId, queue, workers,
                   outbox, returned, nManual, reports, admin>>

NextEmail ==
    \/ beat_check_reminders
    \/ \E a \in AppIds : appointments_update_email(a)
    \/ \E a \in AppIds : SendReminderView_post(a)
    \/ \E w \in Workers :
        \/ check_and_send_reminders_query(w)
        \/ \E delay_ok \in BOOLEAN : check_and_send_reminders_iter(w, delay_ok)
        \/ check_and_send_reminders_return(w)
        \/ send_custom_reminder(w)
        \/ get_or_create_get(w)
        \/ get_or_create_create(w)
        \/ send_reminder_email_template(w)
        \/ create_default_email_template(w)
        \/ \E accepted \in BOOLEAN : send_mail(w, accepted)
        \/ send_reminder_email_finalize(w)
        \/ \E updated \in BOOLEAN : mark_reminder_sent(w, updated)

SpecEmail == Init /\ [][NextEmail]_vars

-----------------------------------------------------------------------------
(* The scan's query over arbitrary collections *)

InitQuery ==
    /\ now = 0
    /\ appts \in [AppIds -> AppointmentDocs]
    /\ ledger = {}
    /\ nextPk = 1
    /\ templates = {}
    /\ nextTplId = 1
    /\ queue = <<>>
    /\ workers = [w \in Workers |-> IdleFrame]
    /\ outbox = [a \in AppIds |-> <<>>]
    /\ returned = [a \in AllIds |-> {}]
    /\ nManual = 0
    /\ deleted_count = 0
    /\ fetch_failed = FALSE
    /\ nAdmin = 0
    /\ setup = "idle"
    /\ settings = [k \in SettingKeys |-> NoSetting]

NextQuery ==
    \/ beat_check_reminders
    \/ \E w \in Workers : check_and_send_reminders_query(w)

SpecQuery == InitQuery /\ [][NextQuery]_vars

-----------------------------------------------------------------------------
(* Properties *)

\* The steps of send_reminder_email after the claim (lines 89-140).
PastClaim == {"context", "create_template", "send", "finalize", "mark"}

RowSent(a) == \E r \in RowsFor(a) : r.reminder_sent

Parts == {"subject", "body_text", "body_html"}

\* Every replacement field of every part of the template has a value.
AllFieldsResolve(kind, missing) ==
    \A part \in Parts :
        TemplateFields(kind)[part] \subseteq BaseKeys \cup (Entities \ missing)

\* The aids of the candidates found[1..n].
Visited(found, n) == [k \in 1..n |-> found[k].aid]

\* C1: for one ledger record (identified by its primary key) the gateway
\* accepts at most one email, however many send_reminder_email tasks run for
\* the appointment while the record exists.
C1_AtMostOneEmailPerRecord ==
    \A a \in AppIds : \A j, k \in DOMAIN outbox[a] :
        outbox[a][j].pk = outbox[a][k].pk => j = k

\* C2: a send_reminder_email task that found the appointment's record already
\* existing (and not sent) never gets an email dispatched: whoever has just
\* dispatched is the task that created the record.
C2_ClaimedRecordBlocks ==
    \A w \in Workers : workers[w].pc \in {"finalize", "mark"} => workers[w].created

\* C3: a send_reminder_email task that finds the appointment's record Sent
\* returns at once (line 87) and changes neither the ledger nor the outbox,
\* the source or the templates; and every email the gateway accepts comes
\* from a task whose claim did not find the record Sent.
C3_SentNotRedispatched ==
    [][ /\ \A a \in AppIds :
              ( /\ queue # <<>>
                /\ Head(queue) = SendTask(a, Head(queue).email)
                /\ queue' = Tail(queue)
                /\ RowSent(a) )
              => ( /\ UNCHANGED <<ledger, outbox, appts, templates, workers>>
                   /\ "already_sent" \in returned'[a] )
        /\ \A w \in Workers :
              ( /\ workers[w].pc = "claim_insert"
                /\ workers'[w] # workers[w]
                /\ RowSent(workers[w].aid) )
              => ( /\ workers'[w] = IdleFrame
                   /\ UNCHANGED <<ledger, outbox, appts, templates>>
                   /\ "already_sent" \in returned'[workers[w].aid] )
        /\ \A a \in AppIds :
              outbox'[a] # outbox[a]
              => \E w \in Workers :
                    /\ workers[w].aid = a
                    /\ workers[w].pc = "send"
                    /\ workers'[w].pc = "finalize"
                    /\ ~workers[w].log.reminder_sent
      ]_vars

\* C3 witness: a task for an appointment returned at line 87 and the
\* appointment still has its one email and its Sent record.
C3_Witness ==
    \E a \in AppIds :
        /\ "already_sent" \in returned[a]
        /\ Len(outbox[a]) = 1
        /\ RowSent(a)

C5_RenderFailureIsHard ==
    [][ \A w \in Workers :
          /\ workers'[w].pc = "send"
             => AllFieldsResolve(workers'[w].tpl.kind, workers'[w].missing)
          /\ ( /\ workers[w].pc \in {"context", "create_template"}
               /\ workers'[w] = IdleFrame )
             => ( /\ UNCHANGED <<ledger, outbox, appts>>
                  /\ returned'[workers[w].aid] \cap
                        {"error_render", "error_template"} # {} )
      ]_vars

\* C5 witness: a task of the appointment ended on a render error; the record
\* is Claimed and nothing was dispatched.
C5_Witness ==
    \E a \in AppIds :
        /\ "error_render" \in returned[a]
        /\ outbox[a] = <<>>
        /\ \E r \in RowsFor(a) : ~r.reminder_sent

\* C6: on the happy path the built-in default template, once created, renders
\* when all lookups succeeded, so that the task goes on to the gateway call.
C6_DefaultTemplateRenders ==
    [][ \A w \in Workers :
          ( /\ workers[w].pc = "create_template"
            /\ workers[w].missing = {}
            /\ workers'[w] # workers[w]
            /\ templates' # templates )
          => workers'[w].pc = "send"
      ]_vars

\* C7: a record that is Sent is, after any step, still there with
\* reminder_sent and reminder_sent_at set, unless the step is the retention
\* sweep deleting it as expired.
C7_SentIsIrreversible ==
    [][ \A r \in ledger :
          r.reminder_sent
          => \/ \E q \in ledger' :
                   /\ q.pk = r.pk
                   /\ q.appointment_id = r.appointment_id
                   /\ q.reminder_sent
                   /\ q.reminder_sent_at # NullTime
             \/ /\ Expired(r)
                /\ \A q \in ledger' : q.pk # r.pk
      ]_vars

\* C7 witness: a record created, finalized a minute later, and still Sent
\* after more time has passed.
C7_Witness ==
    \E r \in ledger :
        /\ r.reminder_sent
        /\ r.created_at < r.reminder_sent_at
        /\ r.reminder_sent_at < now

\* C8: no two ledger rows have the same appointment_id.
C8_OneRecordPerAppointment ==
    \A r, q \in ledger : r.appointment_id = q.appointment_id => r = q

\* C8 witness: two tasks claimed the same appointment; one created the row,
\* the other got the existing row, and there is one row.
C8_Witness ==
    \E w, v \in Workers :
        /\ workers[w].pc \in PastClaim
        /\ workers[v].pc \in PastClaim
        /\ workers[w].aid = workers[v].aid
        /\ workers[w].created
        /\ ~workers[v].created
        /\ Cardinality(RowsFor(workers[w].aid)) = 1

\* C9: no two tasks for the same appointment are past the claim at once.
C9_NoTwoUnitsInFlight ==
    \A w, v \in Workers :
        ( /\ w # v
          /\ workers[w].pc \in PastClaim
          /\ workers[v].pc \in PastClaim )
        => workers[w].aid # workers[v].aid

\* C10: a scan calls delay(...) once for each candidate in turn, whether or
\* not earlier calls raised; it returns only after the last candidate; and
\* it can always take its next step.
C10_ScanVisitsEveryCandidate ==
    [][ \A w \in Workers :
          /\ workers'[w].pc = "scan_loop"
             => /\ workers'[w].i \in 1..(Len(workers'[w].found) + 1)
                /\ workers'[w].attempts =
                      Visited(workers'[w].found, workers'[w].i - 1)
          /\ ( /\ workers[w].pc = "scan_loop"
               /\ workers'[w].pc # "scan_loop" )
             => workers[w].attempts =
                   Visited(workers[w].found, Len(workers[w].found))
          /\ ( /\ workers[w].pc = "scan_loop"
               /\ workers'[w] # workers[w] )
             => \/ workers'[w].pc # "scan_loop"
                \/ workers'[w].i = workers[w].i + 1
          /\ workers[w].pc = "scan_loop"
             => \/ ENABLED check_and_send_reminders_iter(w, FALSE)
                \/ ENABLED check_and_send_reminders_return(w)
      ]_vars

\* C10 witness: a scan over two candidates is about to return although one
\* of its delay(...) calls raised.
C10_Witness ==
    \E w \in Workers :
        /\ workers[w].pc = "scan_loop"
        /\ Len(workers[w].found) >= 2
        /\ workers[w].i > Len(workers[w].found)
        /\ workers[w].reminders_sent < Len(workers[w].found)

\* C11: the count a scan reports when it returns is the number of its
\* candidates that were dispatched, that is, whose email the gateway accepted
\* and whose record is Sent.
C11_SummaryCountsDispatched ==
    [][ \A w \in Workers :
          ( /\ workers[w].pc = "scan_loop"
            /\ workers'[w].pc = "idle" )
          => ScanSummary(workers[w]).reminders_sent =
                Cardinality({k \in 1..Len(workers[w].found) :
                                /\ RowSent(workers[w].found[k].aid)
                                /\ outbox[workers[w].found[k].aid] # <<>>})
      ]_vars

\* C12: a scan whose query the source answers gets exactly the appointments
\* due between now+14 and now+16 minutes, both ends included, with a pending
\* status and the notified flag not true: each of them once, and no other.
C12_CandidateSetIsExact ==
    [][ ( /\ queue # <<>>
          /\ Head(queue) = ScanTask
          /\ queue' = Tail(queue)
          /\ ~fetch_failed' )
        => LET exact == {a \in AppIds :
                           /\ appts[a].appointmentDate >= now + 14
                           /\ appts[a].appointmentDate <= now + 16
                           /\ appts[a].status \in
                                 {"waiting", "confirmed", "scheduled"}
                           /\ appts[a].reminderSent # TRUE}
           IN  IF exact = {}
               THEN workers' = workers
               ELSE \E w \in Workers :
                      /\ workers[w].pc = "idle"
                      /\ workers'[w].pc = "scan_loop"
                      /\ Len(workers'[w].found) = Cardinality(exact)
                      /\ {workers'[w].found[k].aid :
                             k \in 1..Len(workers'[w].found)} = exact
      ]_vars

\* C12 witness: a scan found the appointment due at the window's upper end
\* and left out the other one, which is pending and not notified but due a
\* minute before the window's lower end.
C12_Witness ==
    \E w \in Workers : \E b \in AppIds :
        /\ workers[w].pc = "scan_loop"
        /\ Len(workers[w].found) = 1
        /\ appts[workers[w].found[1].aid].appointmentDate = now + 16
        /\ b # workers[w].found[1].aid
        /\ appts[b].appointmentDate = now + 13
        /\ appts[b].status \in PendingStatuses
        /\ ~appts[b].reminderSent

\* A step of the retention sweep that has an effect: rows leave the ledger,
\* or the count it returns changes.
SweepStep ==
    \/ \E r \in ledger : \A q \in ledger' : q.pk # r.pk
    \/ deleted_count' # deleted_count

\* C13: the sweep deletes the rows created more than 30 days before now and
\* no other (a row exactly 30 days old stays), whatever their state, and
\* returns how many rows it deleted.
C13_SweepDeletesExactlyExpired ==
    [][ SweepStep
        => /\ ledger' = {r \in ledger : r.created_at >= now - 30 * 24 * 60}
           /\ deleted_count' = Cardinality(ledger) - Cardinality(ledger')
      ]_vars

\* C13 witness: a sweep has deleted a row, and a row created exactly 30 days
\* ago is still there.
C13_Witness ==
    /\ deleted_count >= 1
    /\ \E r \in ledger : r.created_at = now - RetentionMinutes

C15_OneDefaultTemplatePersisted ==
    [][ \A w \in Workers :
          ( /\ workers[w].pc = "create_template"
            /\ workers'[w] # workers[w] )
          => Cardinality({t \in templates' :
                            t.reminder_type = "15min" /\ t.is_active}) = 1
      ]_vars

\* C15 witness: a task's insert of the default template was refused because
\* a concurrent task had inserted it, and one active 15min template exists.
C15_Witness ==
    \E a \in AppIds :
        /\ "error_template" \in returned[a]
        /\ Cardinality(ActiveTemplates(ReminderType15)) = 1

\* C16: no reminder type has two active templates.
C16_AtMostOneActivePerType ==
    \A t, u \in templates :
        (t.reminder_type = u.reminder_type /\ t.is_active /\ u.is_active)
        => t = u

\* C16 witness: after two administrative requests a reminder type has the
\* lazily or setup-created default template as its active one next to an
\* inactive template.
C16_Witness ==
    \E t, u \in templates :
        /\ nAdmin = 2
        /\ t.reminder_type = u.reminder_type
        /\ t.is_active /\ t.kind = "default"
        /\ ~u.is_active

\* A worker takes a scan task from the queue.
ScanTaken == queue # <<>> /\ Head(queue) = ScanTask /\ queue' = Tail(queue)

\* C17: the step in which a scan queries the source changes neither ledger,
\* outbox, source nor templates; when the query fails the scan ends there,
\* with no candidate; and a scan that does get candidates gets those of the
\* source's state at that moment, whatever happened to earlier scans.
C17_FailedTickIsSkipped ==
    [][ ScanTaken
        => /\ UNCHANGED <<now, appts, ledger, nextPk, templates, outbox,
                          returned>>
           /\ fetch_failed' # fetch_failed => workers' = workers
           /\ \A w \in Workers :
                 workers'[w] # workers[w]
                 => /\ workers'[w].pc = "scan_loop"
                    /\ workers'[w].found =
                          get_appointments_for_reminder(MinutesBefore)
      ]_vars

\* C17 witness: the source has failed a scan, nothing was recorded or sent,
\* and a scan of the second tick has found the appointment that is still in
\* the window.
C17_Witness ==
    \E w \in Workers :
        /\ fetch_failed
        /\ now = 2
        /\ queue = <<>>
        /\ ledger = {}
        /\ \A a \in AppIds : outbox[a] = <<>> /\ returned[a] = {}
        /\ workers[w].pc = "scan_loop"
        /\ Len(workers[w].found) = 1
        /\ workers[w].attempts = <<>>

\* C18: the step that asks the source to set its flag ends the task with
\* True whether or not the update took place, with the record Sent and its
\* reminder_sent_at set; and a task that starts while the record is Sent and
\* the source's flag is still unset returns at once without dispatching.
C18_MarkFailureIsNotFatal ==
    [][ /\ \A w \in Workers :
              ( /\ workers[w].pc = "mark"
                /\ workers'[w] # workers[w] )
              => /\ workers'[w] = IdleFrame
                 /\ returned'[workers[w].aid] =
                       returned[workers[w].aid] \cup {"sent"}
                 /\ ReturnValue("sent")
                 /\ \E r \in ledger' :
                       /\ r.appointment_id = workers[w].aid
                       /\ r.reminder_sent
                       /\ r.reminder_sent_at # NullTime
        /\ \A a \in AppIds :
              ( /\ queue # <<>>
                /\ Head(queue).type = "send"
                /\ Head(queue).aid = a
                /\ queue' = Tail(queue)
                /\ RowSent(a)
                /\ ~appts[a].reminderSent )
              => /\ UNCHANGED <<ledger, outbox, appts, workers>>
                 /\ returned'[a] = returned[a] \cup {"already_sent"}
      ]_vars

\* C18 witness: one email went out for the appointment, the source's flag
\* was not set, the record is Sent, and a task queued for it by a scan has
\* returned without sending.
C18_Witness ==
    \E a \in AppIds :
        /\ "sent" \in returned[a]
        /\ "already_sent" \in returned[a]
        /\ ~appts[a].reminderSent
        /\ Len(outbox[a]) = 1
        /\ \E r \in RowsFor(a) : r.reminder_sent /\ r.reminder_sent_at # NullTime

\* C19: the send_reminder_email task the manual path queues for an
\* appointment is the task the scan queues for it (same id, same address,
\* nothing that tells the origin), so that what follows is the same; and the
\* manual path does nothing else to ledger, outbox, source or templates.
C19_ManualReentersProtocol ==
    [][ /\ ( /\ queue' # queue
             /\ queue' # <<>>
             /\ (queue = <<>> \/ queue' # Tail(queue))
             /\ queue'[Len(queue')].type = "send" )
           => queue'[Len(queue')] =
                 SendTask(queue'[Len(queue')].aid,
                          appts[queue'[Len(queue')].aid].notificationEmail)
        /\ ( /\ queue # <<>>
             /\ Head(queue).type = "custom"
             /\ queue' # queue
             /\ Len(queue') = Len(queue) )
           => /\ queue' = Append(Tail(queue),
                                 SendTask(Head(queue).aid,
                                          appts[Head(queue).aid].notificationEmail))
              /\ UNCHANGED <<ledger, outbox, appts, templates, workers>>
      ]_vars

\* C19 witness: the task queued by the scan and the task queued by the
\* manual path for the same appointment wait in the queue, and are equal.
C19_Witness ==
    \E j, k \in DOMAIN queue :
        /\ j < k
        /\ queue[j].type = "send"
        /\ queue[j] = queue[k]
        /\ nManual = 1

\* C20: the INSERT of get_or_create decides the claim: with no row for the
\* appointment it creates the one row and the task has created = True; with
\* a row inserted meanwhile it changes nothing and the task gets that row
\* with created = False (or returns True when the row is already Sent); it
\* never ends in the except clause; and no two tasks hold created = True for
\* the same row.
C20_ClaimDecidedAtInsert ==
    [][ /\ \A w \in Workers :
              ( /\ workers[w].pc = "claim_insert"
                /\ workers'[w] # workers[w] )
              => /\ returned'[workers[w].aid] \subseteq
                       returned[workers[w].aid] \cup {"already_sent"}
                 /\ IF \E r \in ledger : r.appointment_id = workers[w].aid
                    THEN /\ ledger' = ledger
                         /\ \/ workers'[w] = IdleFrame
                            \/ /\ ~workers'[w].created
                               /\ workers'[w].log \in ledger
                               /\ workers'[w].log.appointment_id =
                                     workers[w].aid
                    ELSE /\ workers'[w].created
                         /\ workers'[w].log \in ledger'
                         /\ Cardinality({r \in ledger' :
                               r.appointment_id = workers[w].aid}) = 1
        /\ \A w, v \in Workers :
              ( /\ w # v
                /\ workers[w].created
                /\ workers[v].created )
              => workers[w].log.pk # workers[v].log.pk
      ]_vars

\* C20 witness: two tasks found no row for the appointment; one has inserted
\* it and holds created = True, the other is about to run its INSERT.
C20_Witness ==
    \E w, v \in Workers :
        /\ workers[w].pc = "claim_insert"
        /\ workers[v].pc \in PastClaim
        /\ workers[v].created
        /\ workers[v].aid = workers[w].aid
        /\ Cardinality(RowsFor(workers[w].aid)) = 1

\* C21: every Sent record has an email the gateway accepted for it: a row
\* with reminder_sent has an entry in its appointment's outbox that was
\* dispatched for that row.
C21_SentOnlyAfterDispatch ==
    \A r \in ledger :
        r.reminder_sent
        => \E k \in DOMAIN outbox[r.appointment_id] :
              outbox[r.appointment_id][k].pk = r.pk

\* C21 witness: a record the gateway refused is Claimed next to a record
\* that is Sent with its one email.
C21_Witness ==
    \E r, q \in ledger :
        /\ r.reminder_sent
        /\ Len(outbox[r.appointment_id]) = 1
        /\ ~q.reminder_sent
        /\ outbox[q.appointment_id] = <<>>
        /\ "error_gateway" \in returned[q.appointment_id]

\* C23: a row has reminder_sent exactly when its reminder_sent_at is set.
C23_SentIffSentAt ==
    \A r \in ledger : r.reminder_sent <=> r.reminder_sent_at # NullTime

\* C23 witness: a row finalized at the current minute next to a row that is
\* Claimed with reminder_sent_at null.
C23_Witness ==
    \E r, q \in ledger :
        /\ r.reminder_sent /\ r.reminder_sent_at = now
        /\ ~q.reminder_sent /\ q.reminder_sent_at = NullTime

\* C22: at the moment the source's flag of an appointment is set, the
\* appointment's record is in the ledger and is Sent.
C22_FlagSetOnlyWhileSent ==
    [][ \A a \in AppIds :
          (appts'[a].reminderSent /\ ~appts[a].reminderSent) => RowSent(a)
      ]_vars

\* A worker takes a send_reminder_email task for appointment a.
SendTaken(a) ==
    /\ queue # <<>>
    /\ Head(queue).type = "send"
    /\ Head(queue).aid = a
    /\ queue' = Tail(queue)

\* C24: a task that starts when the ledger has no record of its appointment
\* goes on to insert a fresh one, which is Claimed, and from there to render
\* and dispatch; a task that starts while a record exists, abandoned or not,
\* ends there and changes neither ledger nor outbox.
C24_AbandonedBlocksUntilPurge ==
    [][ /\ \A a \in AppIds :
              SendTaken(a)
              => IF RowsFor(a) = {}
                 THEN \E w \in Workers :
                        /\ workers'[w].pc = "claim_insert"
                        /\ workers'[w].aid = a
                 ELSE /\ workers' = workers
                      /\ UNCHANGED <<ledger, outbox>>
        /\ \A w \in Workers :
              ( /\ workers[w].pc = "claim_insert"
                /\ RowsFor(workers[w].aid) = {}
                /\ workers'[w] # workers[w] )
              => /\ workers'[w].pc = "context"
                 /\ \E r \in ledger' :
                       /\ r.appointment_id = workers[w].aid
                       /\ ~r.reminder_sent
                       /\ r.created_at = now
      ]_vars

\* C29: the gateway accepts no email for an appointment whose reminderSent
\* is true in the source (the flag is never reset, so it is then true from
\* the request on unless a task set it meanwhile).
C29_NoDispatchForNotified ==
    [][ \A a \in AppIds :
          outbox'[a] # outbox[a] => ~appts[a].reminderSent
      ]_vars

\* C25: when every reminder requested is of a type other than 15min, the
\* records created carry a requested type and the templates rendered are of
\* a requested type.
C25_CustomReminderOfRequestedType ==
    /\ \A r \in ledger : r.reminder_type \in OtherReminderTypes
    /\ \A w \in Workers :
          workers[w].pc \in {"send", "finalize", "mark"}
          => workers[w].tpl.reminder_type \in OtherReminderTypes

\* C27: a manual send for an id the source does not have changes nothing:
\* the view queues no task, and the task, when called, returns False
\* without queueing send_reminder_email; ledger, templates, outbox and
\* source stay as they are.
C27_UnknownIdHasNoEffect ==
    [][ /\ (nManual' # nManual /\ queue' = queue)
           => UNCHANGED <<ledger, nextPk, templates, outbox, appts, workers,
                          returned>>
        /\ ( /\ queue # <<>>
             /\ Head(queue).type = "custom"
             /\ Head(queue).aid \notin AppIds
             /\ queue' # queue
             /\ Len(queue') <= Len(queue) )
           => /\ queue' = Tail(queue)
              /\ returned'[Head(queue).aid] =
                    returned[Head(queue).aid] \cup {"not_found"}
              /\ ~ReturnValue("not_found")
              /\ UNCHANGED <<ledger, nextPk, templates, outbox, appts, workers>>
      ]_vars

\* C27 witness: send_custom_reminder has returned False for the unknown id
\* and the view has answered a request for it; nothing is recorded, queued
\* or sent.
C27_Witness ==
    /\ "not_found" \in returned[UnknownId]
    /\ nManual >= 2
    /\ ledger = {}
    /\ queue = <<>>
    /\ \A a \in AppIds : outbox[a] = <<>>

\* C30: the gateway accepts an email only for an appointment whose status is
\* in the pending set at that moment.
C30_DispatchOnlyWhilePending ==
    [][ \A a \in AppIds :
          outbox'[a] # outbox[a] => appts[a].status \in PendingStatuses ]_vars

\* The ticks whose query has returned appointment a (one queued send each).
Hits(a) == Cardinality({k \in DOMAIN queue : queue[k].aid = a})
\* Every tick whose window could hold a has been.
WindowPassed(a) ==
    now > appts[a].appointmentDate
            - (MinutesBefore - WindowTolerance) * PhasesPerMinute

\* C28: with ticks one beat period apart, whatever the phase, an appointment
\* that stays pending and un-notified is returned by at most three ticks'
\* queries, and by at least one once its window has passed.
C28_ReturnedByOneToThreeTicks ==
    \A a \in AppIds :
        /\ Hits(a) <= 3
        /\ WindowPassed(a) => Hits(a) >= 1

\* C28 witness: both windows have passed; a1, whose window starts on a
\* tick, was returned three times and a2, off the ticks, twice.
C28_Witness ==
    /\ WindowPassed("a1") /\ WindowPassed("a2")
    /\ Hits("a1") = 3
    /\ Hits("a2") = 2

C31_AlreadySentIsNoOp ==
    [][ \A a \in AppIds :
          ( /\ RowSent(a)
            /\ \/ SendTaken(a)
               \/ \E w \in Workers :
                     /\ workers[w].pc = "claim_insert"
                     /\ workers[w].aid = a
                     /\ workers'[w] # workers[w] )
          => /\ UNCHANGED <<ledger, nextPk, templates, nextTplId, appts, outbox>>
             /\ \A w \in Workers : workers'[w] = IdleFrame \/ workers'[w] = workers[w]
             /\ returned' = [returned EXCEPT ![a] = @ \cup {"already_sent"}]
             /\ ReturnValue("already_sent")
      ]_vars

\* C31 witness: a task returned at line 87 for an appointment whose Sent
\* record holds the time and address of its one email, and whose flag is
\* set.
C31_Witness ==
    \E a \in AppIds :
        /\ "already_sent" \in returned[a]
        /\ appts[a].reminderSent
        /\ Len(outbox[a]) = 1
        /\ \E r \in RowsFor(a) :
              /\ r.reminder_sent_at # NullTime
              /\ r.pk = outbox[a][1].pk

\* C32: whenever send_reminder_email returns True for an appointment, the
\* ledger holds a Sent record of that appointment at that moment.
C32_TrueOnlyWhenSent ==
    [][ \A a \in AppIds :
          (\E o \in returned'[a] \ returned[a] : ReturnValue(o))
          => (\E r \in ledger' : r.appointment_id = a /\ r.reminder_sent)
      ]_vars

\* C33: the user_email of every Sent record is the address of every email
\* the gateway accepted for that record.
C33_RecordHoldsDispatchAddress ==
    \A r \in ledger :
        r.reminder_sent
        => \A k \in DOMAIN outbox[r.appointment_id] :
              outbox[r.appointment_id][k].pk = r.pk
              => outbox[r.appointment_id][k].to = r.user_email

\* C34: no reminder type has two inactive templates, so none has more than
\* two templates; and a change-form request that would make a type's active
\* template inactive while the type has an inactive one leaves the template
\* table as it is.
C34_AtMostOneInactivePerType ==
    /\ [](\A rtype \in ReminderTypes :
            /\ Cardinality({t \in templates :
                  t.reminder_type = rtype /\ ~t.is_active}) <= 1
            /\ Cardinality({t \in templates : t.reminder_type = rtype}) <= 2)
    /\ [][ \A t \in templates :
             ( /\ t.is_active
               /\ \E u \in templates :
                     u.reminder_type = t.reminder_type /\ ~u.is_active
               /\ EmailTemplateAdmin_change(t, t.reminder_type, FALSE) )
             => templates' = templates
         ]_vars

\* C34 witness: two administrative requests have been made on a type whose
\* administrator-made active template was there before its inactive one,
\* and both are still there.
C34_Witness ==
    \E t, u \in templates :
        /\ nAdmin = 2
        /\ t.reminder_type = u.reminder_type
        /\ t.is_active /\ t.kind = "custom"
        /\ ~u.is_active
        /\ t.id < u.id

====
